---- MODULE Spec2Model ----
(***************************************************************************)
(* typescript-docs-verifier: SnippetCompiler.compileSnippets and the       *)
(* post-processing of compiler diagnostics (src/src/SnippetCompiler.ts).   *)
(*                                                                         *)
(* Text is modelled as a sequence of lexical tokens.  A token is a record  *)
(* [t, n, f]: t is the token's kind, n a number it carries (a line number  *)
(* or a block index) and f a document name; unused fields are 0 and "".    *)
(*   path   the text "/compiled-docs/block-<digits>.ts"                    *)
(*   txt    any other run of characters without a line break               *)
(*   nl     a line break                                                   *)
(*   esc    an ANSI colour escape sequence                                 *)
(*   tty    the text ":LINE:COL" (n = LINE)                                *)
(*   paren  the text "(LINE,COL)" (n = LINE)                               *)
(*   file   a document name, written out (f = the name)                    *)
(*   arrow  the text " -> " of the display label                           *)
(*   cb     the text "Code Block <n>" (n = the block index)                *)
(***************************************************************************)
EXTENDS Integers, Sequences, FiniteSets, TLC

\* Bounds of the model.
MaxFiles == 2
MaxLen == 3
MaxLine == 2

VARIABLES
  markdownFileOrFiles, \* the argument of the entry point
  documentationFiles, \* the argument of compileSnippets
  diag,               \* the detail text the compiler service raises for a failing block
  raises,             \* what the compiler service throws for a failing block
  colour,             \* whether chalk emits colour escape sequences
  tick,               \* advance of process.hrtime between two reads of one synchronous turn
  leftOver,           \* whether an earlier run left its working directory behind
  dirExists,          \* whether the working directory exists
  files,              \* the ids of the temp files in the working directory
  pc,                 \* position of the compileSnippets call
  ext,                \* per requested document: state of its extractFileCodeBlocks
  codeBlocks,         \* per requested document: the CodeBlocks it extracted
  examples,           \* the flattened CodeBlocks
  ids,                \* per example: the hrtime token of its temp file
  task,               \* per example: "writing", "compiled" or "threw"
  results,            \* per example: its SnippetCompilationResult (Promise.all's slots)
  thrown,             \* what the try block threw, if it threw
  cleaned,            \* outcome of the removal in the finally block
  settled,            \* how the promise returned by compileSnippets settled
  reordered,          \* history: some extraction or compilation overtook an earlier one
  other               \* position of a second compileSnippets call of the process, if any

\* The arguments of the call and the behaviour of what it runs on.
input == <<markdownFileOrFiles, documentationFiles, diag, raises, colour, tick, leftOver>>

vars == <<input, dirExists, files, pc, ext, codeBlocks, examples, ids, task, results,
          thrown, cleaned, settled, reordered, other>>

\* What no step of the call changes.
env == <<input, other>>

---------------------------------------------------------------------------
\* Tokens.

Tok(t, n, f) == [t |-> t, n |-> n, f |-> f]
Path == Tok("path", 0, "")
Txt == Tok("txt", 0, "")
Nl == Tok("nl", 0, "")
Esc == Tok("esc", 0, "")
Arrow == Tok("arrow", 0, "")
Tty(n) == Tok("tty", n, "")
Paren(n) == Tok("paren", n, "")
FileTok(f) == Tok("file", 0, f)
CodeBlockTok(i) == Tok("cb", i, "")

\* The tokens a text raised by the compiler service or the file system is made of.
RawTokens == {Path, Txt, Nl, Esc} \cup {Tty(n) : n \in 1..MaxLine}
                                  \cup {Paren(n) : n \in 1..MaxLine}

RECURSIVE SeqsUpTo(_, _)
SeqsUpTo(S, n) ==
  IF n = 0 THEN {<<>>}
  ELSE LET shorter == SeqsUpTo(S, n - 1)
       IN shorter \cup {Append(s, x) : s \in {r \in shorter : Len(r) = n - 1}, x \in S}

RECURSIVE Flat(_)
Flat(ss) == IF ss = <<>> THEN <<>> ELSE Head(ss) \o Flat(Tail(ss))

Range(s) == {s[i] : i \in 1..Len(s)}

---------------------------------------------------------------------------
\* Documents and snippets.  A snippet is a sequence of statements.

ImportPkg == "import { f } from 'pkg'"
ImportLocal == "import { f } from './main'"
ImportOther == "import { g } from 'pkg-extra'"
Plain == "const x = 'ok'"
Bad == "const y: number = 'bad'"

PlainSnippet == <<Plain>>
ImportSnippet == <<ImportPkg, ImportOther>>
BadSnippet == <<Bad>>

README == "README.md"
DOLLAR == "$&.md"
GUIDE == "docs/guide.md"
EMPTY == "CHANGELOG.md"
MISSING == "missing.md"

\* The documents on disk, each with the raw blocks the extractor finds in it, in
\* document order: documents of two, one and no blocks.
disk ==
  (README :> <<PlainSnippet, BadSnippet>>) @@ (DOLLAR :> <<BadSnippet>>)
    @@ (GUIDE :> <<ImportSnippet>>) @@ (EMPTY :> <<>>)

\* The names a caller may pass: the documents that exist and one that does not.
Existing == DOMAIN disk
Paths == Existing \cup {MISSING}

---------------------------------------------------------------------------
\* CodeBlockExtractor, LocalImportSubstituter and PackageInfo.

\* CodeBlockExtractor.extract: the raw blocks of a document, in document order.
\* It rejects for a document that does not exist.
ExtractorRejects(file) == file \notin DOMAIN disk
extract(file) == disk[file]

\* The extractor's rejection; its message names the document.
NotFoundError(file) == [kind |-> "notFound", message |-> <<Txt, FileTok(file)>>]

\* The rejection of PackageInfo.read when the package manifest cannot be read.
PackageError == [kind |-> "package", message |-> <<Txt>>]

\* The rejections of fsExtra.remove and fsExtra.ensureDir.
RemoveError == [kind |-> "remove", message |-> <<Txt>>]
EnsureDirError == [kind |-> "ensureDir", message |-> <<Txt>>]

\* LocalImportSubstituter.substituteLocalPackageImports: an import of the package
\* itself becomes an import of its local entry point; nothing else changes.
substituteLocalPackageImports(block) ==
  [i \in 1..Len(block) |-> IF block[i] = ImportPkg THEN ImportLocal ELSE block[i]]

---------------------------------------------------------------------------
\* extractFileCodeBlocks and sanitiseCodeBlock.

sanitiseCodeBlock(block) == substituteLocalPackageImports(block)

\* A variant that numbers the blocks with the callback's index, from 0.
extractFileCodeBlocksZeroBased(file) ==
  LET blocks == extract(file)
  IN [i \in 1..Len(blocks) |->
        [file |-> file, snippet |-> blocks[i], index |-> i - 1,
         sanitisedCode |-> sanitiseCodeBlock(blocks[i])]]

\* blocks.map((block, index) => ...): the callback's index is i - 1 for the
\* i-th block, and the CodeBlock's index is that plus one.
extractFileCodeBlocks(file) ==
  LET blocks == extract(file)
  IN [i \in 1..Len(blocks) |->
        [file |-> file, snippet |-> blocks[i], index |-> (i - 1) + 1,
         sanitisedCode |-> sanitiseCodeBlock(blocks[i])]]

---------------------------------------------------------------------------
\* The errors the compile step can raise.

NoThrow == [threw |-> FALSE]

StringProp(text) == [isString |-> TRUE, val |-> text]
OtherProp == [isString |-> FALSE, val |-> <<>>]

\* ts-node's TSError: its message is a heading and the detail text; the detail
\* text, the codes and the name are enumerable properties.  message and stack are
\* not enumerable; the stack is taken when the error is made.
TSError(diagnosticText) ==
  LET message == <<Txt, Nl>> \o diagnosticText
  IN [threw |-> TRUE, isError |-> TRUE, tsError |-> TRUE, message |-> message,
      stack |-> message,
      props |-> [diagnosticText |-> StringProp(diagnosticText),
                 diagnosticCodes |-> OtherProp,
                 name |-> StringProp(<<Txt>>)]]

\* The error of a failed fsExtra.writeFile: message and path name the temp file.
WriteError ==
  [threw |-> TRUE, isError |-> TRUE, tsError |-> FALSE, message |-> <<Txt, Path, Txt>>,
   stack |-> <<Txt, Path, Txt>>,
   props |-> [errno |-> OtherProp, code |-> StringProp(<<Txt>>),
              path |-> StringProp(<<Txt, Path>>)]]

\* An Error of the compiler service that is no TSError (a TypeError of the
\* service, say): it has a message and a stack and no enumerable property.
OtherError(text) ==
  [threw |-> TRUE, isError |-> TRUE, tsError |-> FALSE, message |-> text,
   stack |-> text, props |-> [x \in {} |-> OtherProp]]

\* A thrown value that is no Error: message holds String(value); it has no stack.
ThrownValue(text) ==
  [threw |-> TRUE, isError |-> FALSE, tsError |-> FALSE, message |-> text,
   stack |-> <<>>, props |-> [x \in {} |-> OtherProp]]

\* What the compiler service throws for code it does not compile: a TSError
\* carrying the detail text, another Error or a value that is no Error, with the
\* same text.
Raised ==
  CASE raises = "TSError" -> TSError(diag)
    [] raises = "Error" -> OtherError(diag)
    [] raises = "value" -> ThrownValue(diag)

\* The compiler service: code with a type error or an unresolved module makes it
\* throw; any other code compiles.
CompilerRaises(code) == \E i \in 1..Len(code) : code[i] \in {Bad, ImportPkg}
compilerCompile(code) == IF CompilerRaises(code) THEN Raised ELSE NoThrow

---------------------------------------------------------------------------
\* removeTemporaryFilePaths.

\* chalk`{blue ${example.file}} -> {cyan Code Block ${example.index}}`
Label(example) ==
  IF colour
  THEN <<Esc, FileTok(example.file), Esc, Arrow, Esc, CodeBlockTok(example.index), Esc>>
  ELSE <<FileTok(example.file), Arrow, CodeBlockTok(example.index)>>

\* String.prototype.replace with a string as replacement: "$&" in the
\* replacement stands for the matched text.  Of the document names, DOLLAR holds "$&".
ExpandReplacement(replacement, matched) ==
  Flat([i \in 1..Len(replacement) |->
          IF replacement[i] = FileTok(DOLLAR) THEN matched \o <<Txt>>
          ELSE <<replacement[i]>>])

LineEnd(message, i) ==
  LET nls == {j \in i..Len(message) : message[j] = Nl}
  IN IF nls = {} THEN Len(message) + 1 ELSE CHOOSE j \in nls : \A m \in nls : j <= m

\* COMPILED_DOCS_FILE_PREFIX_PATTERN = /(.*)\/compiled-docs\/block-\d+\.ts/g:
\* "." matches no line break and ".*" is greedy, so on each line the match runs
\* from the start of the line to the end of the line's last temp-file path.
RECURSIVE ReplacePattern(_, _, _)
ReplacePattern(message, i, replacement) ==
  IF i > Len(message) THEN <<>>
  ELSE LET e == LineEnd(message, i)
           paths == {j \in i..(e - 1) : message[j] = Path}
           line == IF paths = {} THEN SubSeq(message, i, e - 1)
                   ELSE LET last == CHOOSE j \in paths : \A m \in paths : m <= j
                        IN ExpandReplacement(replacement, SubSeq(message, i, last))
                             \o SubSeq(message, last + 1, e - 1)
       IN IF e > Len(message) THEN line
          ELSE line \o <<Nl>> \o ReplacePattern(message, e + 1, replacement)

removeTemporaryFilePaths(message, example) ==
  ReplacePattern(message, 1, Label(example))

---------------------------------------------------------------------------
\* The line numbers of a diagnostic.

\* error.diagnosticText.split('\n')
RECURSIVE split(_, _)
split(text, i) ==
  LET e == LineEnd(text, i)
  IN IF e > Len(text) THEN <<SubSeq(text, i, Len(text))>>
     ELSE <<SubSeq(text, i, e - 1)>> \o split(text, e + 1)

stripAnsi(message) == SelectSeq(message, LAMBDA tok : tok # Esc)

\* /Code Block \d+(?::(\d+):\d+)|(?:\((\d+),\d+\))/ without the g flag: the
\* leftmost match only.  <<>> stands for no match (parseInt gives NaN).
IsReference(s, p) ==
  \/ s[p].t = "paren"
  \/ s[p].t = "cb" /\ p < Len(s) /\ s[p + 1].t = "tty"

\* A variant that knows the format "(LINE,COL)" only.
matchLineParenOnly(message) ==
  LET s == stripAnsi(message)
      hits == {p \in 1..Len(s) : s[p].t = "paren"}
  IN IF hits = {} THEN <<>>
     ELSE LET p == CHOOSE q \in hits : \A m \in hits : q <= m
          IN <<s[p].n>>

matchLine(message) ==
  LET s == stripAnsi(message)
      hits == {p \in 1..Len(s) : IsReference(s, p)}
  IN IF hits = {} THEN <<>>
     ELSE LET p == CHOOSE q \in hits : \A m \in hits : q <= m
          IN IF s[p].t = "paren" THEN <<s[p].n>> ELSE <<s[p + 1].n>>

\* A variant that collects the line numbers in an array instead of a Set.
addLineNoSet(lines, found) == lines \o found

\* linesWithErrors.add(lineNumber): a Set keeps its members in insertion order.
addLine(lines, found) ==
  IF found = <<>> \/ found[1] \in Range(lines) THEN lines ELSE Append(lines, found[1])

RECURSIVE collectLines(_, _, _)
collectLines(messages, i, lines) ==
  IF i > Len(messages) THEN lines
  ELSE collectLines(messages, i + 1, addLine(lines, matchLine(messages[i])))

\* A variant that reads the line numbers from the message of any error.
linesWithErrorsOfAnyError(error) == collectLines(split(error.message, 1), 1, <<>>)

\* [...linesWithErrors] of lines 116-128, 133.
linesWithErrorsOf(error) ==
  IF error.tsError THEN collectLines(split(error.props.diagnosticText.val, 1), 1, <<>>)
  ELSE <<>>

---------------------------------------------------------------------------
\* testCodeCompilation.

\* rawError instanceof Error ? rawError : new Error(String(rawError))
AsError(rawError) ==
  IF rawError.isError THEN rawError
  ELSE [threw |-> TRUE, isError |-> TRUE, tsError |-> FALSE,
        message |-> rawError.message, stack |-> rawError.message,
        props |-> [x \in {} |-> OtherProp]]

\* Lines 108-114: the message, then every enumerable property that is a string.
Scrub(error, example) ==
  [error EXCEPT
     !.message = removeTemporaryFilePaths(error.message, example),
     !.props = [key \in DOMAIN error.props |->
                  IF error.props[key].isString
                  THEN StringProp(removeTemporaryFilePaths(error.props[key].val, example))
                  ELSE error.props[key]]]

\* A variant that reports the localised text.
ResultSnippetSanitised(example) == example.sanitisedCode

ResultSnippet(example) == example.snippet

SuccessResult(example) ==
  [snippet |-> ResultSnippet(example), file |-> example.file, index |-> example.index,
   linesWithErrors |-> <<>>]

\* A variant of the catch path that leaves the error out.
FailureResultNoError(example, error) ==
  [snippet |-> ResultSnippet(example), linesWithErrors |-> linesWithErrorsOf(error),
   file |-> example.file, index |-> example.index]

FailureResult(example, error) ==
  [snippet |-> ResultSnippet(example), error |-> error,
   linesWithErrors |-> linesWithErrorsOf(error),
   file |-> example.file, index |-> example.index]

\* raw is what this.compile(example.sanitisedCode) did: NoThrow or the value thrown.
testCodeCompilation(example, raw) ==
  IF ~raw.threw THEN SuccessResult(example)
  ELSE FailureResult(example, Scrub(AsError(raw), example))

---------------------------------------------------------------------------
\* compileSnippets.

Pending == [pending |-> TRUE]
NotThrown == [threw |-> FALSE]

\* The diagnostics of the two output formats of the compiler, for an error on line 1.
TypicalDiags == {<<Txt, Path, Tty(1), Txt>>, <<Txt, Path, Paren(1), Txt>>}

\* The values of the entry point's parameter: nothing, one path or a list of paths.
Undefined == [kind |-> "undefined", str |-> "", list |-> <<>>]
StringArg(p) == [kind |-> "string", str |-> p, list |-> <<>>]
ArrayArg(l) == [kind |-> "array", str |-> "", list |-> l]

DEFAULT_FILES == ArrayArg(<<README>>)

\* A variant of the default that also stands in for an empty list.
withDefaultForEmpty(arg) ==
  IF arg = Undefined \/ arg = ArrayArg(<<>>) THEN DEFAULT_FILES ELSE arg

\* markdownFileOrFiles: string | string[] = DEFAULT_FILES: the default stands in
\* for an argument that is undefined, and for no other.
withDefault(arg) == IF arg = Undefined THEN DEFAULT_FILES ELSE arg

wrapIfString(arrayOrString) ==
  IF arrayOrString.kind = "array" THEN arrayOrString.list ELSE <<arrayOrString.str>>

\* The entry point: the fileArray it passes to SnippetCompiler.compileSnippets.
compileSnippets(arg) == wrapIfString(withDefault(arg))

\* The arguments of the entry point: none, any path, any list of up to MaxFiles paths.
Arguments ==
  {Undefined} \cup {StringArg(p) : p \in Paths}
              \cup {ArrayArg(l) : l \in SeqsUpTo(Paths, MaxFiles)}

\* The file an earlier run left in the working directory; the ids of this run's
\* temp files are greater.
staleFile == 0

Start ==
  /\ documentationFiles = compileSnippets(markdownFileOrFiles)
  /\ dirExists = leftOver
  /\ files = IF leftOver THEN {staleFile} ELSE {}
  /\ pc = "preclean"
  /\ ext = [i \in 1..Len(documentationFiles) |-> "idle"]
  /\ codeBlocks = [i \in 1..Len(documentationFiles) |-> <<>>]
  /\ examples = <<>>
  /\ ids = <<>>
  /\ task = <<>>
  /\ results = <<>>
  /\ thrown = NotThrown
  /\ cleaned = "no"
  /\ settled = [state |-> "pending"]
  /\ reordered = FALSE

\* Any argument of the entry point, with or without a working directory left
\* over from an earlier run.
Init ==
  /\ markdownFileOrFiles \in Arguments
  /\ diag \in TypicalDiags
  /\ raises = "TSError"
  /\ colour \in BOOLEAN
  /\ tick \in {0, 1}
  /\ leftOver \in BOOLEAN
  /\ other = "none"
  /\ Start

\* One document, and any detail text of up to MaxLen tokens for its failing block.
InitDiag ==
  /\ markdownFileOrFiles \in {ArrayArg(<<README>>), ArrayArg(<<DOLLAR>>), ArrayArg(<<MISSING>>)}
  /\ diag \in SeqsUpTo(RawTokens, MaxLen)
  /\ raises = "TSError"
  /\ colour \in BOOLEAN
  /\ tick = 1
  /\ leftOver = FALSE
  /\ other = "none"
  /\ Start

\* A variant without the finally block: a throw settles the call at once.
ThrowWithoutFinally(error) ==
  /\ pc' = "done"
  /\ thrown' = [threw |-> TRUE, error |-> error]
  /\ settled' = [state |-> "rejected", error |-> error]
  /\ UNCHANGED cleaned

\* The try block throws: control passes to the finally block.
Throw(error) ==
  /\ pc' = "postclean"
  /\ thrown' = [threw |-> TRUE, error |-> error]
  /\ UNCHANGED <<settled, cleaned>>

\* A variant that starts without removing the working directory.
PreCleanSkipped ==
  /\ pc = "preclean"
  /\ pc' = "ensure"
  /\ UNCHANGED <<dirExists, files, thrown, settled, cleaned>>
  /\ UNCHANGED <<env, ext, codeBlocks, examples, ids, task, results, reordered>>

\* Line 46: await this.cleanWorkingDirectory()
PreClean ==
  /\ pc = "preclean"
  /\ \/ /\ dirExists' = FALSE
        /\ files' = {}
        /\ pc' = "ensure"
        /\ UNCHANGED <<thrown, settled, cleaned>>
     \/ /\ Throw(RemoveError)
        /\ UNCHANGED <<dirExists, files>>
  /\ UNCHANGED <<env, ext, codeBlocks, examples, ids, task, results, reordered>>

\* Line 47: await fsExtra.ensureDir(this.workingDirectory)
EnsureDir ==
  /\ pc = "ensure"
  /\ \/ /\ dirExists' = TRUE
        /\ pc' = "readPackage"
        /\ UNCHANGED <<thrown, settled, cleaned>>
     \/ /\ Throw(EnsureDirError)
        /\ UNCHANGED dirExists
  /\ UNCHANGED <<env, files, ext, codeBlocks, examples, ids, task, results, reordered>>

\* Lines 62-65: PackageInfo.read(), then every document's extraction is started.
ReadPackage ==
  /\ pc = "readPackage"
  /\ \/ /\ ext' = [i \in 1..Len(documentationFiles) |-> "reading"]
        /\ pc' = "extract"
        /\ UNCHANGED <<thrown, settled, cleaned>>
     \/ /\ Throw(PackageError)
        /\ UNCHANGED ext
  /\ UNCHANGED <<env, dirExists, files, codeBlocks, examples, ids, task, results, reordered>>

\* A variant that takes a rejected extraction for a document without blocks.
ExtractFailedSwallowed(i) ==
  /\ ext' = [ext EXCEPT ![i] = "done"]
  /\ UNCHANGED <<pc, thrown, settled, cleaned>>

\* extract rejects: Promise.all of line 65 rejects with the first rejection, the
\* await of line 48 throws; a later rejection changes nothing.
ExtractFailed(i) ==
  /\ ext' = [ext EXCEPT ![i] = "failed"]
  /\ IF pc = "extract" THEN Throw(NotFoundError(documentationFiles[i]))
     ELSE UNCHANGED <<pc, thrown, settled, cleaned>>

\* Lines 69-79, for the i-th requested document.  The extractions that are still
\* reading when the call has thrown run on.
ExtractFile(i) ==
  /\ ext[i] = "reading"
  /\ IF ExtractorRejects(documentationFiles[i])
     THEN /\ ExtractFailed(i)
          /\ UNCHANGED codeBlocks
     ELSE /\ ext' = [ext EXCEPT ![i] = "done"]
          /\ codeBlocks' = [codeBlocks EXCEPT ![i] = extractFileCodeBlocks(documentationFiles[i])]
          /\ UNCHANGED <<pc, thrown, settled, cleaned>>
  /\ reordered' = (reordered \/ \E j \in 1..(i - 1) : ext[j] = "reading")
  /\ UNCHANGED <<env, dirExists, files, examples, ids, task, results>>

\* Lines 66, 49-50 and 87: codeBlocks.flat(), then examples.map starts every
\* testCodeCompilation in one synchronous turn; each reads process.hrtime and
\* starts writing its temp file.
StartCompilations ==
  /\ pc = "extract"
  /\ \A i \in 1..Len(documentationFiles) : ext[i] = "done"
  /\ examples' = Flat(codeBlocks)
  /\ ids' = [k \in 1..Len(examples') |-> 1 + (k - 1) * tick]
  /\ task' = [k \in 1..Len(examples') |-> "writing"]
  /\ results' = [k \in 1..Len(examples') |-> Pending]
  /\ pc' = "compile"
  /\ UNCHANGED <<env, dirExists, files, ext, codeBlocks, thrown, settled, cleaned, reordered>>

\* A variant of Promise.all that lists the values in the order in which they arrive.
StoreInCompletionOrder(slots, k, result) ==
  LET free == {j \in 1..Len(slots) : slots[j] = Pending}
  IN [slots EXCEPT ![CHOOSE j \in free : \A m \in free : j <= m] = result]

\* Promise.all keeps each value at the place of its promise.
Store(slots, k, result) == [slots EXCEPT ![k] = result]

\* A variant of testCodeCompilation without its catch: what compile throws
\* rejects Promise.all.
Uncaught(k, raw) ==
  /\ task' = [task EXCEPT ![k] = IF raw.threw THEN "threw" ELSE "compiled"]
  /\ IF raw.threw
     THEN /\ IF pc = "compile" THEN Throw([kind |-> "compile", message |-> raw.message])
             ELSE UNCHANGED <<pc, thrown, settled, cleaned>>
          /\ UNCHANGED results
     ELSE /\ results' = Store(results, k, testCodeCompilation(examples[k], raw))
          /\ UNCHANGED <<pc, thrown, settled, cleaned>>

\* Lines 97-138: the try and the catch both return a result.
Caught(k, raw) ==
  /\ task' = [task EXCEPT ![k] = IF raw.threw THEN "threw" ELSE "compiled"]
  /\ results' = Store(results, k, testCodeCompilation(examples[k], raw))
  /\ UNCHANGED <<pc, thrown, settled, cleaned>>

\* Lines 99 and 90: this.compiler.compile(code, codeFile) with code = example.sanitisedCode.
compile(example) == compilerCompile(example.sanitisedCode)

\* Lines 86-91 and 97-138 for the k-th example: the write of the temp file ends,
\* well or not, and the rest of testCodeCompilation runs in the same turn.
CompileBlock(k) ==
  /\ task[k] = "writing"
  /\ \/ /\ dirExists
        /\ files' = files \cup {ids[k]}
        /\ Caught(k, compile(examples[k]))
     \/ /\ UNCHANGED files
        /\ Caught(k, WriteError)
  /\ reordered' = (reordered \/ \E j \in 1..(k - 1) : task[j] = "writing")
  /\ UNCHANGED <<env, dirExists, ext, codeBlocks, examples, ids>>

\* A variant that goes on as soon as one testCodeCompilation has resolved.
FinishOnFirstCompilation ==
  /\ pc = "compile"
  /\ \E k \in 1..Len(examples) : task[k] # "writing"
  /\ pc' = "postclean"
  /\ UNCHANGED <<env, dirExists, files, ext, codeBlocks, examples, ids, task, results,
                 thrown, cleaned, settled, reordered>>

\* Lines 49-51: Promise.all resolves once every testCodeCompilation has.
FinishCompilations ==
  /\ pc = "compile"
  /\ \A k \in 1..Len(examples) : task[k] # "writing"
  /\ pc' = "postclean"
  /\ UNCHANGED <<env, dirExists, files, ext, codeBlocks, examples, ids, task, results,
                 thrown, settled, cleaned, reordered>>

\* Lines 52-54: the finally block.  What it throws replaces the try block's outcome.
PostClean ==
  /\ pc = "postclean"
  /\ \/ /\ dirExists' = FALSE
        /\ files' = {}
        /\ cleaned' = "ok"
        /\ settled' = IF thrown.threw
                      THEN [state |-> "rejected", error |-> thrown.error]
                      ELSE [state |-> "resolved", value |-> results]
     \/ /\ cleaned' = "failed"
        /\ settled' = [state |-> "rejected", error |-> RemoveError]
        /\ UNCHANGED <<dirExists, files>>
  /\ pc' = "done"
  /\ UNCHANGED <<env, ext, codeBlocks, examples, ids, task, results, thrown, reordered>>

Next ==
  \/ PreClean
  \/ EnsureDir
  \/ ReadPackage
  \/ \E i \in 1..Len(documentationFiles) : ExtractFile(i)
  \/ StartCompilations
  \/ \E k \in 1..Len(examples) : CompileBlock(k)
  \/ FinishCompilations
  \/ PostClean

Spec == Init /\ [][Next]_vars

SpecDiag == InitDiag /\ [][Next]_vars

---------------------------------------------------------------------------
\* Two calls of the entry point in one process.  Both make their SnippetCompiler
\* with path.join(process.cwd(), 'compiled-docs'): dirExists and files are the one
\* directory both work in.  Of the second call the model keeps the steps that
\* touch the directory.

\* The second call changes nothing of the first call's own state.
callState == <<input, pc, ext, codeBlocks, examples, ids, task, results, thrown,
               cleaned, settled, reordered>>

\* The temp file of the second call: its id is read from the same clock at
\* another instant, so it differs from the ids of the first call.
otherFile == 0 - 1

\* The second call starts together with the first; each proceeds at its own pace.
InitShared ==
  /\ markdownFileOrFiles = ArrayArg(<<README>>)
  /\ diag \in TypicalDiags
  /\ raises = "TSError"
  /\ colour = FALSE
  /\ tick = 1
  /\ leftOver \in BOOLEAN
  /\ other = "preclean"
  /\ Start

\* Line 46 in the second call.
OtherPreClean ==
  /\ other = "preclean"
  /\ \/ /\ dirExists' = FALSE
        /\ files' = {}
        /\ other' = "ensure"
     \/ /\ other' = "postclean"
        /\ UNCHANGED <<dirExists, files>>
  /\ UNCHANGED callState

\* Line 47 in the second call.
OtherEnsureDir ==
  /\ other = "ensure"
  /\ \/ /\ dirExists' = TRUE
        /\ other' = "write"
     \/ /\ other' = "postclean"
        /\ UNCHANGED dirExists
  /\ UNCHANGED <<callState, files>>

\* Lines 48-51 and 89 in the second call, for a document of one block: the write
\* of its temp file succeeds only in a directory that exists.
OtherWrite ==
  /\ other = "write"
  /\ \/ /\ dirExists
        /\ files' = files \cup {otherFile}
     \/ UNCHANGED files
  /\ other' = "postclean"
  /\ UNCHANGED <<callState, dirExists>>

\* Lines 52-54 in the second call.
OtherPostClean ==
  /\ other = "postclean"
  /\ \/ /\ dirExists' = FALSE
        /\ files' = {}
     \/ UNCHANGED <<dirExists, files>>
  /\ other' = "done"
  /\ UNCHANGED callState

NextShared ==
  \/ Next
  \/ OtherPreClean
  \/ OtherEnsureDir
  \/ OtherWrite
  \/ OtherPostClean

SpecShared == InitShared /\ [][NextShared]_vars

---------------------------------------------------------------------------
\* Calls whose failing blocks make the compiler service throw a TSError, another
\* Error or a value that is no Error.

InitRaise ==
  /\ markdownFileOrFiles \in {ArrayArg(l) : l \in SeqsUpTo({README, GUIDE}, MaxFiles)}
  /\ diag \in TypicalDiags
  /\ raises \in {"TSError", "Error", "value"}
  /\ colour \in BOOLEAN
  /\ tick = 1
  /\ leftOver = FALSE
  /\ other = "none"
  /\ Start

SpecRaise == InitRaise /\ [][Next]_vars

---------------------------------------------------------------------------
\* Properties of one call.

Settled == settled.state # "pending"
Resolved == settled.state = "resolved"
Rejected == settled.state = "rejected"

Requested == 1..Len(documentationFiles)
AllExist == \A i \in Requested : documentationFiles[i] \in Existing
SomeMissing == \E i \in Requested : documentationFiles[i] \notin Existing

HasError(result) == "error" \in DOMAIN result

\* The directory operations of the call all succeeded; the package was read.
DirectoryOperationsSucceeded ==
  /\ cleaned = "ok"
  /\ ~(thrown.threw /\ thrown.error.kind \in {"remove", "ensureDir"})
PackageWasRead == ~(thrown.threw /\ thrown.error.kind = "package")

\* The raw blocks of the requested documents, in the order of the list and, within
\* a document, in the order of the document.
RECURSIVE RequestedBlocks(_)
RequestedBlocks(i) ==
  IF i > Len(documentationFiles) THEN <<>>
  ELSE LET file == documentationFiles[i]
       IN [j \in 1..Len(disk[file]) |-> [file |-> file, index |-> j, block |-> disk[file][j]]]
            \o RequestedBlocks(i + 1)

\* C1: the results returned are in the order of the document list and, within one
\* document, in ascending order of block index, whatever the order in which the
\* extractions and the compilations completed.
C1_ResultsInInputOrder ==
  Resolved =>
    LET expected == RequestedBlocks(1)
    IN /\ Len(settled.value) = Len(expected)
       /\ \A k \in 1..Len(expected) :
            /\ settled.value[k].file = expected[k].file
            /\ settled.value[k].index = expected[k].index

\* A call returned the results of two documents, one block failed, and an
\* extraction or a compilation had completed before an earlier one.
C1_Witness ==
  /\ Resolved
  /\ reordered
  /\ Len(settled.value) >= 3
  /\ \E k \in 1..Len(settled.value) : HasError(settled.value[k])
  /\ \E k \in 2..Len(settled.value) : settled.value[k].file # settled.value[1].file

RECURSIVE SumOver(_, _)
SumOver(f, S) ==
  IF S = {} THEN 0 ELSE LET x == CHOOSE y \in S : TRUE IN f[x] + SumOver(f, S \ {x})

Occurrences(file) == Cardinality({i \in Requested : documentationFiles[i] = file})

\* C2: for a document of N blocks the call returns N results per request of the
\* document, with the indexes 1..N in order; the length of the result is the sum
\* over the requested documents (0 for documents without blocks or an empty list).
C2_DenseIndexes ==
  Resolved =>
    /\ Len(settled.value) =
         SumOver([i \in Requested |-> Len(disk[documentationFiles[i]])], Requested)
    /\ \A file \in Range(documentationFiles) :
         LET mine == SelectSeq(settled.value, LAMBDA r : r.file = file)
             N == Len(disk[file])
         IN /\ Len(mine) = N * Occurrences(file)
            /\ \A k \in 1..Len(mine) : mine[k].index = ((k - 1) % N) + 1

\* A call returned the results of a document of two blocks and of a document of
\* none.
C2_Witness ==
  /\ Resolved
  /\ README \in Range(documentationFiles)
  /\ EMPTY \in Range(documentationFiles)
  /\ Len(settled.value) = 2

\* What C3 asks of a call that settled: it resolved with one result per block, a
\* block whose compilation raised has a result with an error, and the result of
\* any other block is the one it has when nothing fails.
C3_OneResultPerBlock ==
  LET expected == RequestedBlocks(1)
  IN /\ Resolved
     /\ Len(settled.value) = Len(expected)
     /\ \A k \in 1..Len(expected) :
          IF task[k] = "threw" THEN HasError(settled.value[k])
          ELSE settled.value[k] = [snippet |-> expected[k].block, file |-> expected[k].file,
                                   index |-> expected[k].index, linesWithErrors |-> <<>>]

\* C3 as stated: whenever all requested documents exist and the directory
\* operations succeed, the call resolves with one result per block.
C3_AsStated ==
  (Settled /\ AllExist /\ DirectoryOperationsSucceeded) => C3_OneResultPerBlock

\* C3 as amended: whenever all requested documents exist, the package definition
\* is read and the directory operations succeed, the call resolves with one result
\* per block; a block whose compilation raised has a result with an error and the
\* result of every other block is what it is when no block fails.
C3_FailureNeverAborts ==
  (Settled /\ AllExist /\ PackageWasRead /\ DirectoryOperationsSucceeded)
    => C3_OneResultPerBlock

\* A call resolved with a failed block and a block, after it, that compiled.
C3_Witness ==
  /\ Resolved
  /\ \E j, k \in 1..Len(settled.value) :
       /\ j < k
       /\ task[j] = "threw" /\ HasError(settled.value[j])
       /\ task[k] = "compiled" /\ ~HasError(settled.value[k])

\* C4: the removal in the finally block has been done when the call settles,
\* however the call ends; when the removal succeeded the working directory and its
\* files are gone once the call has settled.
C4_RemovedOnEveryExit ==
  Settled =>
    /\ cleaned # "no"
    /\ cleaned = "ok" => (~dirExists /\ files = {})

\* A call was rejected for a missing document after the directory had been made,
\* and the directory is gone.
C4_Witness ==
  /\ Rejected
  /\ settled.error.kind = "notFound"
  /\ cleaned = "ok"
  /\ ~dirExists

NoBlockCompiled == examples = <<>> /\ task = <<>> /\ results = <<>>

MessageNamesMissingPath ==
  \E i \in Requested :
    /\ documentationFiles[i] \notin Existing
    /\ FileTok(documentationFiles[i]) \in Range(settled.error.message)

\* C5 as stated: if a requested document does not exist the call rejects, no
\* block is compiled and the message of the rejection contains the missing path.
C5_AsStated ==
  (Settled /\ SomeMissing) => (Rejected /\ NoBlockCompiled /\ MessageNamesMissingPath)

\* C5 as amended: if a requested document does not exist the call rejects and no
\* block is compiled; when the package definition is read and the directory
\* operations succeed, the message of the rejection contains a missing path.
C5_MissingDocumentRejects ==
  (Settled /\ SomeMissing) =>
    /\ Rejected
    /\ NoBlockCompiled
    /\ (PackageWasRead /\ DirectoryOperationsSucceeded) => MessageNamesMissingPath

\* A call was rejected for a missing document although another requested document
\* exists and its blocks had been extracted.
C5_Witness ==
  /\ Rejected
  /\ MessageNamesMissingPath
  /\ \E i \in Requested : ext[i] = "done" /\ codeBlocks[i] # <<>>

\* C6: the snippet of every result is the raw block of the document; a block
\* that imports the package is compiled as localised (so the compiler raises
\* nothing for it), and no result carries the localised text.
C6_SnippetIsRawBlock ==
  Resolved =>
    LET expected == RequestedBlocks(1)
    IN /\ Len(settled.value) = Len(expected)
       /\ \A k \in 1..Len(expected) :
            LET result == settled.value[k]
            IN /\ result.snippet = expected[k].block
               /\ DOMAIN result \subseteq {"snippet", "file", "index", "linesWithErrors", "error"}
               /\ (ImportPkg \in Range(expected[k].block) /\ HasError(result))
                    => ~result.error.tsError

\* A call returned the result of a block that localisation rewrote and that
\* compiled, and the result of a block that failed.
C6_Witness ==
  /\ Resolved
  /\ \E j, k \in 1..Len(settled.value) :
       /\ ImportPkg \in Range(settled.value[j].snippet)
       /\ examples[j].sanitisedCode # examples[j].snippet
       /\ ~HasError(settled.value[j])
       /\ HasError(settled.value[k])

\* C7: a result has an error exactly when the compilation of its block raised; a
\* block that compiled has no lines with errors, so lines with errors imply an
\* error.
C7_ErrorIffRaised ==
  Resolved =>
    \A k \in 1..Len(settled.value) :
      LET result == settled.value[k]
      IN /\ HasError(result) <=> task[k] = "threw"
         /\ task[k] = "compiled" => result.linesWithErrors = <<>>
         /\ result.linesWithErrors # <<>> => HasError(result)

\* A call returned a result without error, a result with an error and its line,
\* and a result with an error and no line.
C7_Witness ==
  /\ Resolved
  /\ \E i, j, k \in 1..Len(settled.value) :
       /\ ~HasError(settled.value[i])
       /\ HasError(settled.value[j]) /\ settled.value[j].linesWithErrors # <<>>
       /\ HasError(settled.value[k]) /\ settled.value[k].linesWithErrors = <<>>

---------------------------------------------------------------------------
\* Properties of the errors and of the lines with errors.

FailedResults == {k \in 1..Len(settled.value) : HasError(settled.value[k])}

\* The strings of an error the caller can list: its message and its enumerable
\* properties that are strings.
StringsOf(error) ==
  {error.message} \cup {error.props[key].val : key \in {x \in DOMAIN error.props :
                                                          error.props[x].isString}}

\* C8: in the error of a failed block neither the message nor a string property
\* still holds a temp-file path.
C8_NoTempPathRemains ==
  Resolved =>
    \A k \in FailedResults :
      \A text \in StringsOf(settled.value[k].error) : Path \notin Range(text)

\* A text as displayed: without its colour escape sequences.
Displayed(text) == SelectSeq(text, LAMBDA tok : tok.t # "esc")

\* The number of the position reference that starts at place p of a displayed
\* text, in either format: "Code Block N:LINE:COL" or "(LINE,COL)".
RefAt(d, p) ==
  IF d[p].t = "paren" THEN {d[p].n}
  ELSE IF d[p].t = "cb" /\ p < Len(d) /\ d[p + 1].t = "tty" THEN {d[p + 1].n}
  ELSE {}

SameLine(d, p, q) == \A m \in p..q : d[m].t # "nl"

\* p holds the first reference of its line.
FirstOfLine(d, p) ==
  /\ RefAt(d, p) # {}
  /\ \A q \in 1..(p - 1) : SameLine(d, q, p) => RefAt(d, q) = {}

AllReferences(text) ==
  LET d == Displayed(text) IN UNION {RefAt(d, p) : p \in 1..Len(d)}

FirstReferences(text) ==
  LET d == Displayed(text)
  IN UNION {RefAt(d, p) : p \in {q \in 1..Len(d) : FirstOfLine(d, q)}}

Diagnostics == {k \in FailedResults : settled.value[k].error.tsError}
DetailText(k) == settled.value[k].error.props.diagnosticText.val

\* C9 as stated: the lines with errors of a failed block are the line numbers
\* that the detail text of its diagnostic references, all of them and no other.
C9_AsStated ==
  Resolved =>
    \A k \in Diagnostics :
      Range(settled.value[k].linesWithErrors) = AllReferences(DetailText(k))

\* C9 as amended: the lines with errors of a failed block are the line numbers
\* of the first reference, in either format, of each line of the detail text of
\* its diagnostic, and no other number.
C9_FirstReferenceOfEachLine ==
  Resolved =>
    \A k \in Diagnostics :
      Range(settled.value[k].linesWithErrors) = FirstReferences(DetailText(k))

\* The detail text of a diagnostic has two references on one line, in the format
\* "Code Block N:LINE:COL" first, and the lines with errors hold the first only.
C9_Witness ==
  /\ Resolved
  /\ \E k \in Diagnostics :
       /\ Cardinality(AllReferences(DetailText(k))) = 2
       /\ Len(settled.value[k].linesWithErrors) = 1
       /\ \E p \in 1..Len(DetailText(k)) : DetailText(k)[p].t = "tty"

NoDuplicates(lines) == \A p, q \in 1..Len(lines) : p # q => lines[p] # lines[q]
Ascending(lines) == \A p, q \in 1..Len(lines) : p < q => lines[p] < lines[q]

\* C10 as stated: the lines with errors of every result are free of duplicates
\* and ascending.
C10_AsStated ==
  Resolved =>
    \A k \in 1..Len(settled.value) :
      /\ NoDuplicates(settled.value[k].linesWithErrors)
      /\ Ascending(settled.value[k].linesWithErrors)

\* The first place of a displayed text where a line's first reference is n.
FirstPlace(d, n) ==
  LET places == {p \in 1..Len(d) : FirstOfLine(d, p) /\ n \in RefAt(d, p)}
  IN CHOOSE p \in places : \A q \in places : p <= q

\* C10 as amended: the lines with errors of every result are free of duplicates
\* and stand in the order in which the detail text first references them (which
\* is ascending only when the text references them in ascending order).
C10_NoDuplicatesInTextOrder ==
  Resolved =>
    \A k \in 1..Len(settled.value) :
      LET lines == settled.value[k].linesWithErrors
      IN /\ NoDuplicates(lines)
         /\ k \in Diagnostics =>
              LET d == Displayed(DetailText(k))
              IN \A p, q \in 1..Len(lines) :
                   p < q => FirstPlace(d, lines[p]) < FirstPlace(d, lines[q])

\* A detail text references line 2 and, on its next line, line 1: the lines with
\* errors are 2, 1.
C10_Witness ==
  /\ Resolved
  /\ \E k \in Diagnostics : settled.value[k].linesWithErrors = <<2, 1>>

---------------------------------------------------------------------------
\* Properties of the way a call ends.

\* What the caller gets from a call that resolved: one result per extracted
\* block, none of them missing.
FullyPopulated ==
  /\ Len(settled.value) = Len(RequestedBlocks(1))
  /\ \A k \in 1..Len(settled.value) : settled.value[k] # Pending

StructuralKinds == {"notFound", "remove", "ensureDir"}

\* C11 as stated: a call rejects only for a missing document or a failed
\* creation or removal of the working directory, and a call that resolves gives
\* one result per extracted block.
C11_AsStated ==
  /\ Rejected => settled.error.kind \in StructuralKinds
  /\ Resolved => FullyPopulated

\* C11 as amended: a call rejects only for a missing document, a failed read of
\* the package definition or a failed creation or removal of the working
\* directory; a failed write of a temp file and a failed compilation never reject
\* it, and a call that resolves gives one result per extracted block, none
\* missing.
C11_RejectsOnlyBeforeCompiling ==
  /\ Rejected => settled.error.kind \in StructuralKinds \cup {"package"}
  /\ Resolved => FullyPopulated
  /\ (Settled /\ \E k \in 1..Len(task) : task[k] = "threw")
       => (Resolved \/ settled.error.kind = "remove")

\* A call whose documents all exist and whose directory operations succeeded was
\* rejected because the package definition could not be read.
C11_Witness ==
  /\ Rejected
  /\ settled.error.kind = "package"
  /\ documentationFiles # <<>> /\ AllExist
  /\ DirectoryOperationsSucceeded

---------------------------------------------------------------------------
\* Properties of two calls in one process.

\* The first call has made its directory and has not begun to remove it.
InFlight == pc \in {"readPackage", "extract", "compile"}

\* The examples of the first call whose temp file was written.
Written == {k \in 1..Len(task) : task[k] = "compiled"}

\* C12: while a call is in flight the directory it made and the temp files it
\* wrote are there: no removal of another call deletes them.
C12_OwnDirectoryPerCall ==
  InFlight =>
    /\ dirExists
    /\ \A k \in Written : ids[k] \in files

---------------------------------------------------------------------------
\* Properties of the entry point.

\* C13: the entry point called with one path p passes the list of p alone,
\* called with no argument it passes the list of README.md alone, and called with
\* an empty list it passes the empty list: nothing is extracted and a call that
\* resolves gives no result.
C13_EntryPointArguments ==
  /\ \A p \in Paths :
       markdownFileOrFiles = StringArg(p) =>
         documentationFiles = compileSnippets(ArrayArg(<<p>>)) /\ documentationFiles = <<p>>
  /\ markdownFileOrFiles = Undefined =>
       documentationFiles = compileSnippets(ArrayArg(<<README>>)) /\ documentationFiles = <<README>>
  /\ markdownFileOrFiles = ArrayArg(<<>>) =>
       /\ documentationFiles = <<>>
       /\ examples = <<>>
       /\ Resolved => settled.value = <<>>

\* The entry point was called with the one path README.md, not in a list, and
\* returned the results of the two blocks of README.md.
C13_Witness ==
  /\ markdownFileOrFiles = StringArg(README)
  /\ Resolved
  /\ Len(settled.value) = Len(disk[README])
  /\ \A k \in 1..Len(settled.value) : settled.value[k].file = README

---------------------------------------------------------------------------
\* Properties of the order of the steps of a call.

InFlightCompilations == {k \in 1..Len(task) : task[k] = "writing"}

\* C14: once the compilations are submitted, the removal of the finally block
\* starts, and the call settles, only when no write of a temp file and no
\* compilation is in flight any more; every block then has its result, and no temp
\* file appears after the removal.
C14_SettlesAfterAllCompilations ==
  /\ pc \in {"postclean", "done"} =>
       /\ InFlightCompilations = {}
       /\ \A k \in 1..Len(results) : results[k] # Pending
  /\ (pc = "done" /\ cleaned = "ok") => files = {}

\* The removal of the finally block is about to start after two or more
\* compilations that completed out of order, of which one failed.
C14_Witness ==
  /\ pc = "postclean"
  /\ Len(task) >= 2
  /\ reordered
  /\ \E j, k \in 1..Len(task) : task[j] = "threw" /\ task[k] = "compiled"

NothingExtracted == \A i \in Requested : ext[i] = "idle"
AllExtracted == \A i \in Requested : ext[i] = "done"

\* C16: a call goes through removal, creation, extraction, compilation and the
\* final removal in this order: nothing is extracted before the directory has been
\* removed and made again, every requested document has been extracted before a
\* temp file is written or compiled, and what an earlier run left behind is gone
\* before the first temp file of this run is written.
C16_PhasesInOrder ==
  /\ pc = "preclean" => NothingExtracted /\ examples = <<>> /\ cleaned = "no"
  /\ pc = "ensure" => ~dirExists /\ files = {} /\ NothingExtracted
  /\ pc = "readPackage" => dirExists /\ files = {} /\ NothingExtracted
  /\ ~NothingExtracted => staleFile \notin files
  /\ pc = "extract" => dirExists /\ files = {} /\ task = <<>>
  /\ task # <<>> => AllExtracted
  /\ pc = "compile" => dirExists /\ AllExtracted /\ staleFile \notin files
  /\ (\E k \in 1..Len(ids) : ids[k] \in files) => staleFile \notin files
  /\ pc = "postclean" => cleaned = "no" /\ ~Settled
  /\ pc = "done" <=> Settled

\* A call that found the directory of an earlier run has extracted two documents
\* and written a temp file; the stale file is gone.
C16_Witness ==
  /\ leftOver
  /\ pc = "compile"
  /\ Len(documentationFiles) >= 2
  /\ \E k \in 1..Len(ids) : ids[k] \in files
  /\ staleFile \notin files

---------------------------------------------------------------------------
\* Properties of the failures that are no compiler diagnostics.

Threw == {k \in 1..Len(task) : task[k] = "threw"}

\* The failed write of a temp file is known by the path its error carries.
IsWriteError(error) == "path" \in DOMAIN error.props

\* C17: a failed write of a temp file, an Error that is no TSError and a thrown
\* value that is no Error each become the error of their block, an Error, with no
\* lines with errors whatever its message references; the call resolves with a
\* result for every block, and such a failure never rejects it.
C17_OtherFailuresAreCaptured ==
  /\ Resolved =>
       /\ FullyPopulated
       /\ \A k \in Threw :
            LET result == settled.value[k]
            IN /\ HasError(result)
               /\ result.error.isError
               /\ ~result.error.tsError => result.linesWithErrors = <<>>
  /\ (Settled /\ Threw # {}) => (Resolved \/ settled.error.kind = "remove")

\* A call resolved with a block whose write failed and a block for which the
\* compiler service threw a value that is no Error: the value is wrapped, its
\* message references a line, and it has no lines with errors.
C17_Witness ==
  /\ Resolved
  /\ raises = "value"
  /\ \E j, k \in Threw :
       /\ IsWriteError(settled.value[j].error)
       /\ ~IsWriteError(settled.value[k].error)
       /\ settled.value[k].error.isError
       /\ AllReferences(settled.value[k].error.message) # {}
       /\ settled.value[k].linesWithErrors = <<>>

====
